---- MODULE Spec2Model ----
(***************************************************************************)
(* Weekly / monthly Ads Monitor: calendar-aligned period pairing and the   *)
(* dashboard formula builder.                                              *)
(*                                                                         *)
(* Sources modelled:                                                       *)
(*   src/scripts/weekly-ads-monitor/weekly-ads-monitor-1-8-9.js            *)
(*   src/unnamed/part_001  (Monthly Ads Monitor v1.1)                      *)
(*                                                                         *)
(* Conventions.  A date string 'yyyy-MM-dd' is the triple <<y, m, d>> of   *)
(* its three numeric fields; parsing and formatting are the civil-calendar *)
(* conversions below.  Instants are counted in whole days since 1970-01-01 *)
(* (the script and account time zones are taken to be UTC, so a date-only  *)
(* string parses to midnight and formats back to the same calendar day).   *)
(* Money is counted in cents.  Cell values are rationals <<num, den>>.      *)
(***************************************************************************)
EXTENDS Integers, Naturals, Sequences, FiniteSets, TLC

VARIABLES
  script,       \* which report runs: "weekly" or "monthly"
  today,        \* new Date() at the time of the run, as a calendar day
  account,      \* the rows the account holds, by period, newest first
  rawData,      \* the processed rows, as written to the Raw sheet
  pc,           \* where the summary builder is: "pairing", "building", "done"
  idx,          \* the position of the loop in progress (rows done so far)
  weekPairs,    \* the {current, previous} pairs pushed so far
  formulaData,  \* the formula rows pushed so far; on the sheet once "done"
  B2,           \* filter cell: campaign type
  B3,           \* filter cell: exclude brand campaigns
  B4,           \* toggle cell: hide the YoY comparison
  sheetName,    \* the name of the tab that holds the dashboard
  history,      \* the formula rows each earlier run left on the sheet
  adsRows,      \* optimizer: the rows AdsApp.search returned
  products,     \* optimizer: the products extracted from adsRows
  batchStart,   \* optimizer: i, the index at which the batch in progress begins
  done,         \* optimizer: how many products of the batch have been handled
  successful,   \* optimizer: the count of products optimized
  failed,       \* optimizer: the count of products that ended in the catch
  calls,        \* optimizer: calls of optimizeProductType so far, by sheet row
  lastMonthProducts,     \* tracker: lastMonthData.data, a Map in insertion order
  twoMonthsAgoProducts,  \* tracker: twoMonthsAgoData.data
  allProductIds,         \* tracker: the Set of ids the analysis iterates over
  analysed,              \* tracker: how many ids of allProductIds are done
  newProducts,           \* tracker: Map of the products only last month has
  discontinuedProducts,  \* tracker: Map of the products only two months ago has
  continuingProducts,    \* tracker: Map of the products both months have
  summary                \* tracker: analysis.summary, once computed

vars == <<script, today, account, rawData, pc, idx, weekPairs, formulaData, B2, B3,
          B4, sheetName, history, adsRows, products, batchStart, done, successful, failed,
          calls, lastMonthProducts, twoMonthsAgoProducts, allProductIds, analysed,
          newProducts, discontinuedProducts, continuingProducts, summary>>

\* the variables of the dashboard reports that the other scripts leave alone
reportVars == <<account, rawData, idx, weekPairs, formulaData, B2, B3, B4, sheetName,
                history>>

\* the variables of the product-type optimizer
optimizerVars == <<adsRows, products, batchStart, done, successful, failed, calls>>

\* the variables of the product performance tracker
trackerVars == <<lastMonthProducts, twoMonthsAgoProducts, allProductIds, analysed,
                 newProducts, discontinuedProducts, continuingProducts, summary>>

----------------------------------------------------------------------------
(* Bounds of the model *)

\* most rows of the Raw sheet in a run that exercises the pairing
MaxRows == 3
\* most rows of the Raw sheet in a run that exercises the formulas
MaxSheetRows == 2
\* the comparison-year week starts are drawn from PrevSpan + 1 consecutive days
PrevSpan == 14
\* the current-year week starts are drawn from CurWeeks consecutive weeks
CurWeeks == 2
\* the months are drawn from the first MonthSpan months of each year
MonthSpan == 3
\* the report is run at most MaxRuns times on the same spreadsheet
MaxRuns == 2
\* most rows of the product query in a run that exercises the extraction
MaxAdsRows == 3
\* most products in a run that exercises the batch loop (more than one batch)
MaxProducts == 11

----------------------------------------------------------------------------
(* Calendar: what new Date(str), getTime, setFullYear and                  *)
(* Utilities.formatDate(d, tz, 'yyyy-MM-dd') compute                       *)

Null == <<>>

IsLeap(y) == (y % 4 = 0 /\ y % 100 # 0) \/ y % 400 = 0

DaysInMonth(y, m) ==
  IF m = 2 THEN (IF IsLeap(y) THEN 29 ELSE 28)
  ELSE IF m \in {4, 6, 9, 11} THEN 30 ELSE 31

\* new Date('yyyy-MM-dd') is a valid Date only for a real calendar day
ValidDate(s) ==
  /\ s # Null
  /\ s[2] \in 1..12
  /\ s[3] >= 1
  /\ s[3] <= DaysInMonth(s[1], s[2])

\* days since 1970-01-01 of the civil day y-m-d (d may overflow the month,
\* as in new Date(y, m, d) and setFullYear)
DaysFromCivil(y, m, d) ==
  LET yy  == IF m <= 2 THEN y - 1 ELSE y
      era == yy \div 400
      yoe == yy - era * 400
      mp  == IF m > 2 THEN m - 3 ELSE m + 9
      doy == (153 * mp + 2) \div 5 + d - 1
      doe == yoe * 365 + yoe \div 4 - yoe \div 100 + doy
  IN  era * 146097 + doe - 719468

\* the civil day <<y, m, d>> of a day count
CivilFromDays(z0) ==
  LET z   == z0 + 719468
      era == z \div 146097
      doe == z - era * 146097
      yoe == (doe - doe \div 1460 + doe \div 36524 - doe \div 146096) \div 365
      doy == doe - (365 * yoe + yoe \div 4 - yoe \div 100)
      mp  == (5 * doy + 2) \div 153
      d   == doy - (153 * mp + 2) \div 5 + 1
      m   == IF mp < 10 THEN mp + 3 ELSE mp - 9
      y   == yoe + era * 400 + (IF m <= 2 THEN 1 ELSE 0)
  IN  <<y, m, d>>

\* new Date(str).getTime(), in days
GetTime(s) == DaysFromCivil(s[1], s[2], s[3])

\* Utilities.formatDate(date, timeZone, 'yyyy-MM-dd')
FormatDate(days) == CivilFromDays(days)

\* variant: "the same week last year" taken as 52 weeks earlier
SetFullYearBack_52Weeks(s) == DaysFromCivil(s[1], s[2], s[3]) - 364

\* d = new Date(currentDate); d.setFullYear(currentDate.getFullYear() - 1)
\* keeps month and day-of-month; 29 February spills into 1 March
SetFullYearBack(s) == DaysFromCivil(s[1] - 1, s[2], 1) + s[3] - 1

Abs(x) == IF x < 0 THEN -x ELSE x

----------------------------------------------------------------------------
(* Numbers: the rationals n/d *)

RECURSIVE Gcd(_, _)
Gcd(a, b) == IF b = 0 THEN a ELSE Gcd(b, a % b)

\* the rational n/d in lowest terms, d > 0
Rat(n, d) ==
  LET g == Gcd(Abs(n), Abs(d))
      sg == IF d < 0 THEN -1 ELSE 1
  IN  [t |-> "num", n |-> (sg * n) \div g, d |-> (sg * d) \div g]

ErrorValue == [t |-> "err"]

IsNum(v) == v.t = "num"

RatGt(a, b) == a.n * b.d > b.n * a.d
RatDiv(a, b) == IF b.n = 0 THEN ErrorValue ELSE Rat(a.n * b.d, a.d * b.n)
RatMul(a, b) == Rat(a.n * b.n, a.d * b.d)
RatAdd(a, b) == Rat(a.n * b.d + b.n * a.d, a.d * b.d)

----------------------------------------------------------------------------
(* Strings and arrays *)

\* 'yyyy-MM-dd' strings compare field by field (Array.prototype.sort)
StrLess(a, b) ==
  \/ a[1] < b[1]
  \/ a[1] = b[1] /\ a[2] < b[2]
  \/ a[1] = b[1] /\ a[2] = b[2] /\ a[3] < b[3]

RECURSIVE SortSet(_)
SortSet(S) ==
  IF S = {} THEN <<>>
  ELSE LET lo == CHOOSE x \in S : \A y \in S \ {x} : StrLess(x, y)
       IN  <<lo>> \o SortSet(S \ {lo})

Range(seq) == {seq[i] : i \in 1..Len(seq)}

\* week.includes(year.toString()): the four digits of a year occur in a
\* 'yyyy-MM-dd' string only as its year field
IncludesYear(s, year) == s[1] = year

----------------------------------------------------------------------------
(* Raw rows: processData *)

\* the campaign.advertisingChannelType switch
FormatCampaignType(t) ==
  CASE t = "SEARCH" -> "Search"
    [] t = "DISPLAY" -> "Display"
    [] t = "SHOPPING" -> "Shopping"
    [] t = "VIDEO" -> "Video"
    [] t = "PERFORMANCE_MAX" -> "Performance Max"
    [] t = "" -> "Unknown"
    [] OTHER -> t

\* Math.round((costMicros / 1000000) * 100) / 100, kept in cents
CostFromMicros(costMicros) == Rat((costMicros + 5000) \div 10000, 100)

\* newRow of the weekly script, by column letter of the Raw sheet
\* (only the columns some formula reads are kept)
WeeklyRow(api) ==
  [A |-> api.period, D |-> FormatCampaignType(api.channel), E |-> api.brand,
   G |-> api.clicks, H |-> CostFromMicros(api.costMicros),
   J |-> api.conversions, K |-> api.value]

\* newRow of the monthly script: the Raw sheet has Cost Per Conversion in K,
\* Conversion Value in L and Conversion Value (Time) in M
MonthlyRow(api) ==
  [A |-> api.period, D |-> FormatCampaignType(api.channel), E |-> api.brand,
   G |-> api.clicks, H |-> CostFromMicros(api.costMicros),
   J |-> api.conversions, L |-> api.value, M |-> api.valueByTime]

----------------------------------------------------------------------------
(* getDateRange and the query: WHERE segments.date BETWEEN START_DATE AND   *)
(* END_DATE                                                                *)

\* today.getDay(): 0 = Sunday ... 6 = Saturday (1970-01-01 was a Thursday)
getDay(date) == (GetTime(date) + 4) % 7

\* variant: always "the most recent Sunday", which on a Sunday is today
WeeklyEndDate_NoSundayCase == GetTime(today) - getDay(today)

\* getDateRange().end of the weekly script: the last complete Sunday
WeeklyEndDate ==
  LET dayOfWeek == getDay(today)
  IN  IF dayOfWeek = 0 THEN GetTime(today) - 7
      ELSE GetTime(today) - dayOfWeek

\* getDateRange().end of the monthly script:
\* new Date(today.getFullYear(), today.getMonth(), 0)
MonthlyEndDate == DaysFromCivil(today[1], today[2], 1) - 1

\* getDateRange().start: new Date(currentYear - 1, 0, 1)
StartDate == DaysFromCivil(today[1] - 1, 1, 1)

EndDate == IF script = "weekly" THEN WeeklyEndDate ELSE MonthlyEndDate

\* the last day of the period that starts on the valid day `period`
PeriodEnd(period) ==
  IF script = "weekly" THEN GetTime(period) + 6
  ELSE GetTime(period) + DaysInMonth(period[1], period[2]) - 1

\* a row of a period is returned when some day of the period lies in the
\* date range (a period string that is no calendar day is not a day the
\* filter can reject)
InDateRange(period) ==
  ValidDate(period) =>
    (GetTime(period) <= EndDate /\ PeriodEnd(period) >= StartDate)

\* AdsApp.search(GAQL_QUERY): the account's rows that pass the WHERE clause,
\* in the account's (descending) order
search(rows) == SelectSeq(rows, LAMBDA r : InDateRange(r.period))

----------------------------------------------------------------------------
(* Period Aggregator, weekly: findClosestPreviousYearWeek *)

Infinity == 999999999

Tolerance == 7

\* variants of the guard: the last week within tolerance wins; 7 days is
\* already too far; no tolerance at all
CloserInTolerance_LastWins(daysDiff, smallestDiff) == daysDiff <= Tolerance
CloserInTolerance_Strict(daysDiff, smallestDiff) ==
  daysDiff < Tolerance /\ daysDiff < smallestDiff
CloserInTolerance_Unbounded(daysDiff, smallestDiff) == daysDiff < smallestDiff

\* variant: an equally distant week met later replaces the one held
CloserInTolerance_TieLast(daysDiff, smallestDiff) ==
  daysDiff <= Tolerance /\ daysDiff <= smallestDiff

\* the guard of the forEach body: within tolerance and strictly closer
CloserInTolerance(daysDiff, smallestDiff) ==
  daysDiff <= Tolerance /\ daysDiff < smallestDiff

\* availablePreviousWeeks.forEach(...): the fold from element i on, carrying
\* closestWeek and smallestDiff
RECURSIVE ClosestFrom(_, _, _, _, _)
ClosestFrom(weeks, i, target, closestWeek, smallestDiff) ==
  IF i > Len(weeks) THEN closestWeek
  ELSE LET weekStr  == weeks[i]
           daysDiff == IF ValidDate(weekStr)
                       THEN Abs(GetTime(weekStr) - target)
                       ELSE Infinity   \* NaN: every comparison is false
       IN  IF CloserInTolerance(daysDiff, smallestDiff)
           THEN ClosestFrom(weeks, i + 1, target, weekStr, daysDiff)
           ELSE ClosestFrom(weeks, i + 1, target, closestWeek, smallestDiff)

\* the exact-match test and early return
ExactMatch(exactPreviousDateStr, availablePreviousWeeks) ==
  exactPreviousDateStr \in Range(availablePreviousWeeks)

findClosestPreviousYearWeek(currentYearWeekStart, availablePreviousWeeks) ==
  IF ~ValidDate(currentYearWeekStart)
  THEN Null      \* formatDate of an invalid Date throws: the catch returns null
  ELSE LET exactPreviousDate    == SetFullYearBack(currentYearWeekStart)
           exactPreviousDateStr == FormatDate(exactPreviousDate)
       IN  IF ExactMatch(exactPreviousDateStr, availablePreviousWeeks)
           THEN exactPreviousDateStr
           ELSE ClosestFrom(availablePreviousWeeks, 1, exactPreviousDate,
                            Null, Infinity)

----------------------------------------------------------------------------
(* createWeeklySummary: the week lists *)

\* new Date().getFullYear() at the time of the run
currentYear == today[1]

previousYear == currentYear - 1

allWeekDates == SortSet({rawData[i].A : i \in 1..Len(rawData)})

currentYearWeeks ==
  SelectSeq(allWeekDates, LAMBDA week : IncludesYear(week, currentYear))

previousYearWeeks ==
  SelectSeq(allWeekDates, LAMBDA week : IncludesYear(week, previousYear))

----------------------------------------------------------------------------
(* Formula text.  A formula string is kept as the tree of its pieces:      *)
(*   call  - `=NAME(arg,...)` when eq, `NAME(arg,...)` when not            *)
(*   range - 'Raw!G:G'          date - '"2025-03-03"'                      *)
(*   cell  - 'B2', 'C11'        text - '"All"'                             *)
(*   num   - '0', '11'          bool - 'FALSE'                             *)
(*   gt, eqs, div, mul - the infix pieces 'x>y', 'x="s"', 'x/y', '(x)*y'    *)

Call(eq, fn, args) == [k |-> "call", eq |-> eq, fn |-> fn, args |-> args]
RangeRef(col)      == [k |-> "range", col |-> col]
Quoted(dateStr)    == [k |-> "date", s |-> dateStr]
CellRef(col, row)  == [k |-> "cell", col |-> col, row |-> row]
Text(str)          == [k |-> "text", s |-> str]
Num(n)             == [k |-> "num", v |-> n]
Bool(b)            == [k |-> "bool", v |-> b]
Gt(l, r)           == [k |-> "gt", l |-> l, r |-> r]
EqS(l, r)          == [k |-> "eqs", l |-> l, r |-> r]
Div(l, r)          == [k |-> "div", l |-> l, r |-> r]
Mul(l, r)          == [k |-> "mul", l |-> l, r |-> r]
\* a string that is not a formula (the display date of a row)
Plain(dateStr)     == [k |-> "plain", s |-> dateStr]
\* an argument the caller left out
Undefined          == [k |-> "undefined"]

\* functionName = formulaMap[formulaType][locale] (en_US: the name itself);
\* every formula type returns `=${functionName}(${args.join(',')})`
getLocaleAwareFormula(formulaType, args) == Call(TRUE, formulaType, args)

createIfFormula(condition, trueValue, falseValue) ==
  getLocaleAwareFormula("IF", <<condition, trueValue, falseValue>>)

createSumifsFormula(sumRange, criteriaRange1, criteria1, criteriaRange2, criteria2, criteriaRange3, criteria3) ==
  LET args1 == <<sumRange, criteriaRange1, criteria1>>
      args2 == IF criteriaRange2 # Undefined /\ criteria2 # Undefined
               THEN args1 \o <<criteriaRange2, criteria2>> ELSE args1
      args3 == IF criteriaRange3 # Undefined /\ criteria3 # Undefined
               THEN args2 \o <<criteriaRange3, criteria3>> ELSE args2
  IN  getLocaleAwareFormula("SUMIFS", args3)

createComplexSumifsFormula(sumRange, dateRange, dateValue, brandRange, campaignTypeRange) ==
  LET innerIfExcludeBrand ==
        createIfFormula(
          EqS(CellRef("B", 2), Text("All")),
          createSumifsFormula(sumRange, dateRange, dateValue,
                              brandRange, Bool(FALSE), Undefined, Undefined),
          createSumifsFormula(sumRange, dateRange, dateValue,
                              brandRange, Bool(FALSE),
                              campaignTypeRange, CellRef("B", 2)))
      innerIfIncludeAll ==
        createIfFormula(
          EqS(CellRef("B", 2), Text("All")),
          createSumifsFormula(sumRange, dateRange, dateValue,
                              Undefined, Undefined, Undefined, Undefined),
          createSumifsFormula(sumRange, dateRange, dateValue,
                              campaignTypeRange, CellRef("B", 2),
                              Undefined, Undefined))
  IN  createIfFormula(EqS(CellRef("B", 3), Text("Yes")),
                      innerIfExcludeBrand, innerIfIncludeAll)

----------------------------------------------------------------------------
(* createWeeklySummary: one row of formulas per week pair *)

\* rowNum = i + 11
WeeklyFirstRow == 11

\* createIfFormula(`X${rowNum}>0`, `Y${rowNum}/X${rowNum}`, '0')
RatioFormula(den, num, rowNum) ==
  createIfFormula(Gt(CellRef(den, rowNum), Num(0)),
                  Div(CellRef(num, rowNum), CellRef(den, rowNum)), Num(0))

\* createIfFormula(`${rowNum}>11`,
\*   createIfFormula(`X${rowNum-1}>0`, `(X${rowNum}/X${rowNum-1})*100`, '0'), '0')
WoWFormula(col, rowNum) ==
  createIfFormula(Gt(Num(rowNum), Num(WeeklyFirstRow)),
    createIfFormula(Gt(CellRef(col, rowNum - 1), Num(0)),
                    Mul(Div(CellRef(col, rowNum), CellRef(col, rowNum - 1)),
                        Num(100)),
                    Num(0)),
    Num(0))

\* createIfFormula(`P${rowNum}>0`, `(C${rowNum}/P${rowNum})*100`, '0')
IndexFormula(prev, cur, rowNum) ==
  createIfFormula(Gt(CellRef(prev, rowNum), Num(0)),
                  Mul(Div(CellRef(cur, rowNum), CellRef(prev, rowNum)),
                      Num(100)),
                  Num(0))

\* the SUMIFS cell of one metric for one week, or '0' when the week is null
WeekSumFormula(sumCol, week) ==
  IF week # Null
  THEN createComplexSumifsFormula(RangeRef(sumCol), RangeRef("A"),
                                  Quoted(week), RangeRef("E"), RangeRef("D"))
  ELSE Num(0)

\* formulaRow of loop index i (0-based) for the pair weekPairs[i]
WeeklyFormulaRow(i, pair) ==
  LET weekNumber   == i + 1
      currentWeek  == pair.current
      previousWeek == pair.previous
      rowNum       == i + WeeklyFirstRow
  IN  [A  |-> Num(weekNumber),
       B  |-> Plain(currentWeek),
       C  |-> WeekSumFormula("G", currentWeek),
       D  |-> WoWFormula("C", rowNum),
       E  |-> WeekSumFormula("G", previousWeek),
       F  |-> IndexFormula("E", "C", rowNum),
       G  |-> RatioFormula("C", "K", rowNum),
       H  |-> WoWFormula("G", rowNum),
       I  |-> RatioFormula("D", "L", rowNum),
       J  |-> IndexFormula("I", "G", rowNum),
       K  |-> WeekSumFormula("H", currentWeek),
       L  |-> WoWFormula("K", rowNum),
       M  |-> WeekSumFormula("H", previousWeek),
       N  |-> IndexFormula("M", "K", rowNum),
       O  |-> WeekSumFormula("J", currentWeek),
       P  |-> WoWFormula("O", rowNum),
       Q  |-> WeekSumFormula("J", previousWeek),
       R  |-> IndexFormula("Q", "O", rowNum),
       S  |-> IF currentWeek # Null THEN RatioFormula("O", "K", rowNum)
              ELSE Num(0),
       T  |-> WoWFormula("S", rowNum),
       U  |-> IF previousWeek # Null THEN RatioFormula("Q", "M", rowNum)
              ELSE Num(0),
       V  |-> IndexFormula("U", "S", rowNum),
       W  |-> WeekSumFormula("K", currentWeek),
       X  |-> WoWFormula("W", rowNum),
       Y  |-> WeekSumFormula("K", previousWeek),
       Z  |-> IndexFormula("Y", "W", rowNum),
       AA |-> RatioFormula("K", "W", rowNum),
       AB |-> WoWFormula("AA", rowNum),
       AC |-> RatioFormula("M", "Y", rowNum),
       AD |-> IndexFormula("AC", "AA", rowNum)]

----------------------------------------------------------------------------
(* createMonthlySummary: the month lists and one row of formulas per month *)

allMonthDates == SortSet({rawData[i].A : i \in 1..Len(rawData)})

currentYearMonths ==
  SelectSeq(allMonthDates, LAMBDA month : IncludesYear(month, currentYear))

allPreviousYearMonths ==
  SelectSeq(allMonthDates, LAMBDA month : IncludesYear(month, previousYear))

\* today.getMonth() + 1
todayMonth == today[2]

\* lastCompleteMonth = new Date(today.getFullYear(), today.getMonth(), 0);
\* currentMonthNumber = lastCompleteMonth.getMonth() + 1
currentMonthNumber == IF todayMonth = 1 THEN 12 ELSE todayMonth - 1

\* array.slice(0, n)
Slice0(seq, n) == SubSeq(seq, 1, IF n < Len(seq) THEN n ELSE Len(seq))

\* variant: the comparison months are not limited
previousYearMonths_Untruncated == allPreviousYearMonths

previousYearMonths == Slice0(allPreviousYearMonths, currentMonthNumber)

limitedCurrentYearMonths == Slice0(currentYearMonths, currentMonthNumber)

maxMonths == Len(limitedCurrentYearMonths)

\* variant: the index taken as 1-based
ElementOrNull_OneBased(seq, i) == IF i >= 1 /\ i <= Len(seq) THEN seq[i] ELSE Null

\* array[i] || null, i 0-based
ElementOrNull(seq, i) == IF i + 1 <= Len(seq) THEN seq[i + 1] ELSE Null

\* rowNum = i + 8
MonthlyFirstRow == 8

\* `=IF(B3="Yes",IF(B2="All",SUMIFS(S,Raw!A:A,m,Raw!E:E,FALSE),
\*                         SUMIFS(S,Raw!A:A,m,Raw!D:D,B2,Raw!E:E,FALSE)),
\*                IF(B2="All",SUMIFS(S,Raw!A:A,m),SUMIFS(S,Raw!A:A,m,Raw!D:D,B2)))`
\* or '0' when the month is null
MonthSumFormula(sumCol, month) ==
  IF month # Null
  THEN LET S == RangeRef(sumCol)
           A == RangeRef("A")
           m == Quoted(month)
           all == EqS(CellRef("B", 2), Text("All"))
       IN  Call(TRUE, "IF",
             <<EqS(CellRef("B", 3), Text("Yes")),
               Call(FALSE, "IF",
                 <<all,
                   Call(FALSE, "SUMIFS", <<S, A, m, RangeRef("E"), Bool(FALSE)>>),
                   Call(FALSE, "SUMIFS", <<S, A, m, RangeRef("D"), CellRef("B", 2),
                                           RangeRef("E"), Bool(FALSE)>>)>>),
               Call(FALSE, "IF",
                 <<all,
                   Call(FALSE, "SUMIFS", <<S, A, m>>),
                   Call(FALSE, "SUMIFS", <<S, A, m, RangeRef("D"), CellRef("B", 2)>>)>>)>>)
  ELSE Num(0)

\* `=IF(X${rowNum}>0,Y${rowNum}/X${rowNum},0)`
MonthlyRatioFormula(den, num, rowNum) ==
  Call(TRUE, "IF", <<Gt(CellRef(den, rowNum), Num(0)),
                     Div(CellRef(num, rowNum), CellRef(den, rowNum)), Num(0)>>)

\* `=IF(P${rowNum}>0,(C${rowNum}/P${rowNum})*100,0)`
MonthlyIndexFormula(prev, cur, rowNum) ==
  Call(TRUE, "IF", <<Gt(CellRef(prev, rowNum), Num(0)),
                     Mul(Div(CellRef(cur, rowNum), CellRef(prev, rowNum)), Num(100)),
                     Num(0)>>)

\* formulaRow of loop index i (0-based)
MonthlyFormulaRow(i) ==
  LET monthNumber   == i + 1
      currentMonth  == ElementOrNull(limitedCurrentYearMonths, i)
      previousMonth == ElementOrNull(previousYearMonths, i)
      rowNum        == i + MonthlyFirstRow
  IN  [A |-> Num(monthNumber),
       B |-> Plain(currentMonth),
       C |-> MonthSumFormula("G", currentMonth),
       D |-> MonthSumFormula("G", previousMonth),
       E |-> MonthlyIndexFormula("D", "C", rowNum),
       F |-> MonthlyRatioFormula("C", "I", rowNum),
       G |-> MonthlyRatioFormula("D", "J", rowNum),
       H |-> MonthlyIndexFormula("G", "F", rowNum),
       I |-> MonthSumFormula("H", currentMonth),
       J |-> MonthSumFormula("H", previousMonth),
       K |-> MonthlyIndexFormula("J", "I", rowNum),
       L |-> MonthSumFormula("J", currentMonth),
       M |-> MonthSumFormula("J", previousMonth),
       N |-> MonthlyIndexFormula("M", "L", rowNum),
       O |-> MonthSumFormula("L", currentMonth),
       P |-> MonthSumFormula("L", previousMonth),
       Q |-> MonthlyIndexFormula("P", "O", rowNum),
       R |-> MonthSumFormula("M", currentMonth),
       S |-> MonthSumFormula("M", previousMonth),
       T |-> MonthlyIndexFormula("S", "R", rowNum),
       U |-> MonthlyRatioFormula("I", "O", rowNum),
       V |-> MonthlyRatioFormula("J", "P", rowNum),
       W |-> MonthlyIndexFormula("V", "U", rowNum),
       X |-> MonthlyRatioFormula("I", "R", rowNum),
       Y |-> MonthlyRatioFormula("J", "S", rowNum),
       Z |-> MonthlyIndexFormula("Y", "X", rowNum)]

----------------------------------------------------------------------------
(* refreshSheet -> regenerateData: the rows rewritten from the Raw sheet    *)
(* (the week starts of the Raw sheet are read back as the strings written)  *)

\* rowNum = i + 9
RefreshedFirstRow == 9

\* rawData.slice(1) filtered by the values read from B2 and B3
filteredData ==
  SelectSeq(rawData, LAMBDA row : /\ B2 = "All" \/ row.D = B2
                                  /\ B3 = "Yes" => ~row.E)

weekStartDates == SortSet({filteredData[i].A : i \in 1..Len(filteredData)})

\* `=SUMIFS(Raw!X:X,Raw!A:A,"week")` or '0'
PlainSumFormula(sumCol, weekStart, present) ==
  IF present
  THEN Call(TRUE, "SUMIFS", <<RangeRef(sumCol), RangeRef("A"), Quoted(weekStart)>>)
  ELSE Num(0)

\* Math.floor((new Date(weekStart) - new Date(`${year}-01-01`)) / 7 days) + 1
WeekNumberOf(weekStart) ==
  IF ValidDate(weekStart)
  THEN Num((GetTime(weekStart) - DaysFromCivil(currentYear, 1, 1)) \div 7 + 1)
  ELSE Undefined   \* NaN

\* `=IF(X${rowNum}>0,Y${rowNum}/X${rowNum},0)`
GuardedDivFormula(den, num, rowNum) ==
  Call(TRUE, "IF", <<Gt(CellRef(den, rowNum), Num(0)),
                     Div(CellRef(num, rowNum), CellRef(den, rowNum)), Num(0)>>)

\* the 11-column row of the current-year-only view
generateCurrentYearFormulaRow(weekStart, rowNum, currentWeek) ==
  [A |-> WeekNumberOf(weekStart),
   B |-> Plain(weekStart),
   C |-> PlainSumFormula("G", weekStart, currentWeek),
   D |-> GuardedDivFormula("C", "E", rowNum),
   E |-> PlainSumFormula("H", weekStart, currentWeek),
   F |-> PlainSumFormula("J", weekStart, currentWeek),
   G |-> IF currentWeek THEN GuardedDivFormula("F", "E", rowNum) ELSE Num(0),
   H |-> PlainSumFormula("K", weekStart, currentWeek),
   I |-> PlainSumFormula("O", weekStart, currentWeek),
   J |-> GuardedDivFormula("E", "H", rowNum),
   K |-> GuardedDivFormula("E", "I", rowNum)]

\* new Date(row[weekStartCol]).getFullYear() === year
YearIs(weekStart, year) == ValidDate(weekStart) /\ weekStart[1] = year

\* the rows regenerateData leaves on the sheet from row 9 on.  In the YoY
\* view the forEach body names previousWeekQuoted, which nothing declares:
\* the first week throws a ReferenceError, the catch logs it and nothing is
\* written
regenerateData(showYoyComparison) ==
  IF showYoyComparison
  THEN <<>>
  ELSE [i \in 1..Len(weekStartDates) |->
          generateCurrentYearFormulaRow(weekStartDates[i],
                                        (i - 1) + RefreshedFirstRow,
                                        YearIs(weekStartDates[i], currentYear))]

\* getShowYoyComparison: value !== 'Yes'
getShowYoyComparison(toggle) == toggle # "Yes"

----------------------------------------------------------------------------
(* createWeeklySummary: the conditional-format rules of the WoW and YoY    *)
(* columns                                                                   *)

\* whenNumberGreaterThanOrEqualTo(n), whenNumberBetween(lo, hi) and
\* whenNumberLessThan(n), each with setBackground(background)
GreaterThanOrEqualTo(n, background) ==
  [when |-> "gte", values |-> <<n>>, background |-> background]
Between(lo, hi, background) ==
  [when |-> "between", values |-> <<lo, hi>>, background |-> background]
LessThan(n, background) ==
  [when |-> "lt", values |-> <<n>>, background |-> background]

\* the rules pushed for a column where higher is better
normalRules ==
  << GreaterThanOrEqualTo(140, "#a5d6a7"),
     Between(130, 139, "#c8e6c9"),
     Between(125, 129, "#dcedc8"),
     Between(120, 124, "#e8f5e8"),
     Between(115, 119, "#f1f8e9"),
     Between(110, 114, "#f4faf5"),
     Between(105, 109, "#f7fcf8"),
     Between(100, 104, "#f9fdf9"),
     Between(95, 99, "#fef9f7"),
     Between(90, 94, "#fef5f5"),
     Between(85, 89, "#ffebee"),
     Between(80, 84, "#ffe0e1"),
     Between(75, 79, "#ffcdd2"),
     Between(70, 74, "#ffb3ba"),
     Between(65, 69, "#ff9aa2"),
     Between(60, 64, "#ff8a95"),
     LessThan(60, "#ff7782") >>

\* the rules pushed by applyReversedCPCFormatting
applyReversedCPCFormatting ==
  << GreaterThanOrEqualTo(140, "#ff9aa2"),
     Between(130, 139, "#ffb3ba"),
     Between(125, 129, "#ffcdd2"),
     Between(120, 124, "#ffe0e1"),
     Between(115, 119, "#ffebee"),
     Between(110, 114, "#fef5f5"),
     Between(105, 109, "#fef9f7"),
     Between(100, 104, "#fefcfc"),
     Between(95, 99, "#f9fdf9"),
     Between(90, 94, "#f7fcf8"),
     Between(85, 89, "#f4faf5"),
     Between(80, 84, "#f1f8e9"),
     Between(75, 79, "#e8f5e8"),
     Between(70, 74, "#dcedc8"),
     Between(65, 69, "#c8e6c9"),
     LessThan(65, "#a5d6a7") >>

\* the condition of a rule on a cell that shows the number v
RuleMatches(rule, v) ==
  CASE rule.when = "gte"     -> v.n >= rule.values[1] * v.d
    [] rule.when = "between" -> /\ v.n >= rule.values[1] * v.d
                                /\ v.n <= rule.values[2] * v.d
    [] rule.when = "lt"      -> v.n < rule.values[1] * v.d

\* the WoW and YoY columns, by column number
indexColumns == {4, 6, 8, 10, 12, 14, 16, 18, 20, 22, 24, 26, 28, 30}

\* colIndex === 8 || 20 || 10 || 14 || 22: the columns where lower is better
lowerIsBetter(colIndex) == colIndex \in {8, 20, 10, 14, 22}

\* the body of indexColumns.forEach(colIndex => ...): the rules of a column
rulesOfColumn(colIndex) ==
  IF lowerIsBetter(colIndex) THEN applyReversedCPCFormatting ELSE normalRules

----------------------------------------------------------------------------
(* The spreadsheet host: values and recalculation.  A cell whose text      *)
(* starts with '=' is a formula.  Inside a formula an argument is an       *)
(* expression, and an expression cannot start with '=': such a formula     *)
(* does not parse and the cell shows #ERROR!.                              *)

\* values of different types are never equal
SameValue(a, b) ==
  /\ a.t = b.t
  /\ CASE a.t = "num"  -> a.n = b.n /\ a.d = b.d
       [] a.t = "text" -> a.s = b.s
       [] a.t = "date" -> a.s = b.s
       [] a.t = "bool" -> a.b = b.b
       [] OTHER        -> FALSE

\* the value held by column col of a Raw row
RawValue(row, col) ==
  CASE col = "A" -> [t |-> "date", s |-> row.A]
    [] col = "D" -> [t |-> "text", s |-> row.D]
    [] col = "E" -> [t |-> "bool", b |-> row.E]
    [] col \notin {"A", "D", "E"} /\ col \in DOMAIN row -> row[col]
    [] OTHER     -> [t |-> "blank"]   \* a column the Raw sheet does not have

\* no nested piece of the formula text starts with '='
RECURSIVE NestedCallsBare(_)
NestedCallsBare(node) ==
  IF node.k # "call" THEN TRUE
  ELSE \A j \in 1..Len(node.args) :
         LET a == node.args[j]
         IN  a.k = "call" => (~a.eq /\ NestedCallsBare(a))

\* the data rows of the summary sheet start at this row
FirstRow ==
  IF script = "monthly" THEN MonthlyFirstRow
  ELSE IF pc = "refreshed" THEN RefreshedFirstRow ELSE WeeklyFirstRow

RECURSIVE Eval(_), SumIfs(_, _), CellValue(_, _)

\* SUMIFS(sumRange, range1, crit1, ...) over the Raw rows from index i on
SumIfs(args, i) ==
  IF i > Len(rawData) THEN Rat(0, 1)
  ELSE LET row  == rawData[i]
           hit  == \A j \in 1..((Len(args) - 1) \div 2) :
                     SameValue(RawValue(row, args[2 * j].col),
                               Eval(args[2 * j + 1]))
           rest == SumIfs(args, i + 1)
           val  == RawValue(row, args[1].col)
       IN  IF hit /\ IsNum(val) THEN RatAdd(val, rest) ELSE rest

\* the value of a parsed expression
Eval(node) ==
  CASE node.k = "num"  -> Rat(node.v, 1)
    [] node.k = "text" -> [t |-> "text", s |-> node.s]
    [] node.k = "date" -> [t |-> "date", s |-> node.s]
    [] node.k = "bool" -> [t |-> "bool", b |-> node.v]
    [] node.k = "cell" -> CellValue(node.col, node.row)
    [] node.k = "gt"   ->
         LET l == Eval(node.l)  r == Eval(node.r)
         IN  IF IsNum(l) /\ IsNum(r)
             THEN [t |-> "bool", b |-> RatGt(l, r)] ELSE ErrorValue
    [] node.k = "eqs"  ->
         LET l == Eval(node.l)  r == Eval(node.r)
         IN  IF l.t = "err" \/ r.t = "err" THEN ErrorValue
             ELSE [t |-> "bool", b |-> SameValue(l, r)]
    [] node.k = "div"  ->
         LET l == Eval(node.l)  r == Eval(node.r)
         IN  IF IsNum(l) /\ IsNum(r) THEN RatDiv(l, r) ELSE ErrorValue
    [] node.k = "mul"  ->
         LET l == Eval(node.l)  r == Eval(node.r)
         IN  IF IsNum(l) /\ IsNum(r) THEN RatMul(l, r) ELSE ErrorValue
    [] node.k = "call" /\ node.fn = "IF" ->
         LET c == Eval(node.args[1])
         IN  IF c.t # "bool" THEN ErrorValue
             ELSE IF c.b THEN Eval(node.args[2]) ELSE Eval(node.args[3])
    [] node.k = "call" /\ node.fn = "SUMIFS" -> SumIfs(node.args, 1)
    [] OTHER -> ErrorValue

\* what a cell holding the written text shows
CellShows(node) ==
  IF node.k = "call"
  THEN IF node.eq /\ NestedCallsBare(node) THEN Eval(node) ELSE ErrorValue
  ELSE IF node.k = "plain" THEN [t |-> "date", s |-> node.s]
  ELSE Eval(node)

\* the value shown by cell col<row> of the summary sheet
CellValue(col, row) ==
  IF col = "B" /\ row = 2 THEN [t |-> "text", s |-> B2]
  ELSE IF col = "B" /\ row = 3 THEN [t |-> "text", s |-> B3]
  ELSE IF row >= FirstRow /\ row < FirstRow + Len(formulaData)
       THEN CellShows(formulaData[row - FirstRow + 1][col])
       ELSE ErrorValue

----------------------------------------------------------------------------
(* Inputs: the rows returned by the GAQL query                              *)

\* one row of AdsApp.search(GAQL_QUERY)
ApiRow(period, channel, brand, m) ==
  [period |-> period, channel |-> channel, brand |-> brand,
   clicks |-> Rat(m[1], 1), costMicros |-> m[2],
   conversions |-> Rat(m[3], 1), value |-> Rat(m[4], 100),
   valueByTime |-> Rat(m[4], 200)]

\* <<clicks, cost in micros, conversions, conversion value in cents>>
MetricPool == {<<0, 0, 0, 0>>, <<10, 2500000, 2, 1000>>, <<4, 1204999, 0, 300>>}

CurBase == <<2025, 2, 24>>
PrevBase == <<2024, 2, 19>>
\* a week string that is not a calendar day
MalformedWeek == <<2025, 13, 1>>

CurPool == {FormatDate(GetTime(CurBase) + 7 * k) : k \in 0..(CurWeeks - 1)}
PrevPool == {FormatDate(GetTime(PrevBase) + k) : k \in 0..PrevSpan}

\* the rows of a set of periods, one campaign each, in the query's order
\* (ORDER BY segments.week DESC)
RECURSIVE RowsDesc(_)
RowsDesc(S) ==
  IF S = {} THEN <<>>
  ELSE LET hi == CHOOSE x \in S : \A y \in S \ {x} : StrLess(y, x)
       IN  <<ApiRow(hi, "SEARCH", FALSE, <<10, 2500000, 2, 1000>>)>>
           \o RowsDesc(S \ {hi})

\* inputs that exercise the pairing: any few week starts
PairingInputs ==
  {RowsDesc(S) : S \in {T \in SUBSET (CurPool \cup PrevPool \cup {MalformedWeek}) :
                          Cardinality(T) \in 1..MaxRows}}

\* the weeks of the January example: two current-year and three
\* comparison-year Mondays
JanuaryCurrentWeeks == <<<<2025, 1, 6>>, <<2025, 1, 13>>>>
JanuaryComparisonWeeks == <<<<2024, 1, 1>>, <<2024, 1, 8>>, <<2024, 1, 15>>>>
JanuaryInput == RowsDesc(Range(JanuaryCurrentWeeks) \cup Range(JanuaryComparisonWeeks))

\* inputs that exercise the month lists: any few of the first MonthSpan months
\* of the two years
MonthPool == {<<y, m, 1>> : y \in {2024, 2025}, m \in 1..MonthSpan}

MonthListInputs ==
  {RowsDesc(S) : S \in {T \in SUBSET MonthPool : Cardinality(T) \in 1..MaxRows}}

\* inputs that exercise the formulas: few periods, any campaigns
SheetWeeks == {CurBase, FormatDate(GetTime(CurBase) + 7),
               FormatDate(SetFullYearBack(CurBase))}

SheetMonths == {<<2025, 1, 1>>, <<2025, 2, 1>>, <<2024, 1, 1>>}

SheetApiPool(periods) ==
  {ApiRow(w, c, b, m) : w \in periods, c \in {"SEARCH", "SHOPPING"},
                        b \in BOOLEAN, m \in MetricPool}

IsDesc(rows) ==
  \A i \in 1..(Len(rows) - 1) : ~StrLess(rows[i].period, rows[i + 1].period)

SheetInputs(periods) ==
  UNION {{rows \in [1..n -> SheetApiPool(periods)] : IsDesc(rows)} :
           n \in 1..MaxSheetRows}

\* the days on which the weekly report is run: a Sunday and the Monday after
WeeklyTodays == {FormatDate(GetTime(CurBase) + 13), FormatDate(GetTime(CurBase) + 14)}

\* the days on which the monthly report is run
MonthlyTodays == {<<2025, 1, 31>>, <<2025, 2, 1>>, <<2025, 3, 15>>}

\* the account holds rows only of periods that have begun
Started(rows) ==
  \A i \in 1..Len(rows) :
    ValidDate(rows[i].period) => GetTime(rows[i].period) <= GetTime(today)

\* the values the filter cells can be given
CampaignTypeValues == {"All", "Search", "Shopping", "Video"}
BrandFilterValues == {"No", "Yes"}

----------------------------------------------------------------------------
(* The reports: generateWeeklyAdsReport -> createWeeklySummary and          *)
(* main -> createMonthlySummary, from the point where the filter cells are *)
(* set up ('All', 'No' on a cleared sheet)                                 *)

\* processData: rows.next() ... data.push(newRow)
processData(kind, rows) ==
  [i \in 1..Len(rows) |-> IF kind = "weekly" THEN WeeklyRow(rows[i])
                          ELSE MonthlyRow(rows[i])]

\* if (rawData.length === 0) return: the summary is built only from some rows
InitWeekly ==
  /\ script = "weekly"
  /\ today \in WeeklyTodays
  /\ account \in PairingInputs \cup SheetInputs(SheetWeeks) \cup {JanuaryInput}
  /\ Started(account)
  /\ rawData = processData("weekly", search(account))
  /\ Len(rawData) > 0
  /\ pc = "pairing"

InitMonthly ==
  /\ script = "monthly"
  /\ today \in MonthlyTodays
  /\ account \in MonthListInputs \cup SheetInputs(SheetMonths)
  /\ Started(account)
  /\ rawData = processData("monthly", search(account))
  /\ Len(rawData) > 0
  /\ pc = "building"

\* the optimizer is not part of a run of the reports
OptimizerIdle ==
  /\ adsRows = <<>>
  /\ products = <<>>
  /\ batchStart = 0
  /\ done = 0
  /\ successful = 0
  /\ failed = 0
  /\ calls = <<>>

\* the tracker is not part of a run of the reports or of the optimizer
TrackerIdle ==
  /\ lastMonthProducts = <<>>
  /\ twoMonthsAgoProducts = <<>>
  /\ allProductIds = <<>>
  /\ analysed = 0
  /\ newProducts = <<>>
  /\ discontinuedProducts = <<>>
  /\ continuingProducts = <<>>
  /\ summary = <<>>

Init ==
  /\ InitWeekly \/ InitMonthly
  /\ idx = 0
  /\ weekPairs = <<>>
  /\ formulaData = <<>>
  /\ B2 = "All"
  /\ B3 = "No"
  /\ B4 = "No"
  /\ sheetName = (IF script = "weekly" THEN "Weekly Summary" ELSE "Monthly Summary")
  /\ history = <<>>
  /\ OptimizerIdle
  /\ TrackerIdle

\* variant: a week without a match is left out ("only include pairs where
\* both current and previous year data exists")
PairStep_DropsUnmatched(currentWeek) ==
  LET previousWeek == findClosestPreviousYearWeek(currentWeek, previousYearWeeks)
  IN  IF previousWeek # Null
      THEN Append(weekPairs, [current |-> currentWeek, previous |-> previousWeek])
      ELSE weekPairs

\* variant: the weeks are aligned by position in the two lists
PairStep_Positional(currentWeek) ==
  Append(weekPairs, [current |-> currentWeek,
                     previous |-> IF Len(weekPairs) < Len(previousYearWeeks)
                                  THEN previousYearWeeks[Len(weekPairs) + 1]
                                  ELSE Null])

\* one iteration of currentYearWeeks.forEach(currentWeek => ...)
PairStep(currentWeek) ==
  LET previousWeek == findClosestPreviousYearWeek(currentWeek, previousYearWeeks)
  IN  IF previousWeek # Null
      THEN Append(weekPairs, [current |-> currentWeek, previous |-> previousWeek])
      ELSE Append(weekPairs, [current |-> currentWeek, previous |-> Null])

PairWeek ==
  /\ script = "weekly"
  /\ pc = "pairing"
  /\ idx < Len(currentYearWeeks)
  /\ weekPairs' = PairStep(currentYearWeeks[idx + 1])
  /\ idx' = idx + 1
  /\ UNCHANGED <<script, today, account, rawData, pc, formulaData, B2, B3, B4, sheetName, history, optimizerVars, trackerVars>>

\* the forEach is over: go on to the formula rows
PairingDone ==
  /\ script = "weekly"
  /\ pc = "pairing"
  /\ idx = Len(currentYearWeeks)
  /\ pc' = "building"
  /\ idx' = 0
  /\ UNCHANGED <<script, today, account, rawData, weekPairs, formulaData, B2, B3, B4, sheetName, history, optimizerVars, trackerVars>>

\* maxWeeks = weekPairs.length
maxWeeks == Len(weekPairs)

\* one iteration of for (let i = 0; i < maxWeeks; i++)
BuildRow ==
  /\ script = "weekly"
  /\ pc = "building"
  /\ idx < maxWeeks
  /\ formulaData' = Append(formulaData, WeeklyFormulaRow(idx, weekPairs[idx + 1]))
  /\ idx' = idx + 1
  /\ UNCHANGED <<script, today, account, rawData, pc, weekPairs, B2, B3, B4, sheetName, history, optimizerVars, trackerVars>>

\* summaryRange.setValues(formulaData): the rows are on the sheet
WriteRows ==
  /\ script = "weekly"
  /\ pc = "building"
  /\ idx = maxWeeks
  /\ pc' = "done"
  /\ UNCHANGED <<script, today, account, rawData, idx, weekPairs, formulaData, B2, B3, B4, sheetName, history, optimizerVars, trackerVars>>

\* one iteration of for (let i = 0; i < maxMonths; i++)
MonthlyBuildRow ==
  /\ script = "monthly"
  /\ pc = "building"
  /\ idx < maxMonths
  /\ formulaData' = Append(formulaData, MonthlyFormulaRow(idx))
  /\ idx' = idx + 1
  /\ UNCHANGED <<script, today, account, rawData, pc, weekPairs, B2, B3, B4, sheetName, history, optimizerVars, trackerVars>>

\* summaryRange.setValues(formulaData) of the monthly report
MonthlyWriteRows ==
  /\ script = "monthly"
  /\ pc = "building"
  /\ idx = maxMonths
  /\ pc' = "done"
  /\ UNCHANGED <<script, today, account, rawData, idx, weekPairs, formulaData, B2, B3, B4, sheetName, history, optimizerVars, trackerVars>>

\* the user picks a value in a filter dropdown
SetFilter ==
  /\ pc \in {"done", "refreshed"}
  /\ \E t \in CampaignTypeValues, b \in BrandFilterValues :
       /\ B2' = t
       /\ B3' = b
  /\ UNCHANGED <<script, today, account, rawData, pc, idx, weekPairs, formulaData,
                 B4, sheetName, history, history, optimizerVars, trackerVars>>

\* the user picks a value in the toggle dropdown
SetToggle ==
  /\ script = "weekly"
  /\ pc \in {"done", "refreshed"}
  /\ \E v \in {"No", "Yes"} : B4' = v
  /\ UNCHANGED <<script, today, account, rawData, pc, idx, weekPairs, formulaData,
                 B2, B3, sheetName, history, optimizerVars, trackerVars>>

\* the user renames the dashboard tab to the name refreshSheet looks for
RenameSheet ==
  /\ script = "weekly"
  /\ pc = "done"
  /\ sheetName # "Summary"
  /\ sheetName' = "Summary"
  /\ UNCHANGED <<script, today, account, rawData, pc, idx, weekPairs, formulaData,
                 B2, B3, B4, history, optimizerVars, trackerVars>>

\* the body of refreshSheet once the sheet is found: rows 9 onward are
\* cleared and regenerateData writes what it can
Refreshed(toggle) ==
  /\ formulaData' = regenerateData(getShowYoyComparison(toggle))
  /\ pc' = "refreshed"

\* refreshSheet(): getSheetByName('Summary'), return when there is none
RefreshSheet ==
  /\ script = "weekly"
  /\ pc \in {"done", "refreshed"}
  /\ IF sheetName = "Summary" THEN Refreshed(B4)
     ELSE UNCHANGED <<formulaData, pc>>
  /\ UNCHANGED <<script, today, account, rawData, idx, weekPairs, B2, B3, B4,
                 sheetName, history, optimizerVars, trackerVars>>

\* toggleYoY(): flip B4, then refreshSheet()
ToggleYoY ==
  /\ script = "weekly"
  /\ pc \in {"done", "refreshed"}
  /\ IF sheetName = "Summary"
     THEN /\ B4' = (IF B4 = "Yes" THEN "No" ELSE "Yes")
          /\ Refreshed(IF B4 = "Yes" THEN "No" ELSE "Yes")
     ELSE UNCHANGED <<B4, formulaData, pc>>
  /\ UNCHANGED <<script, today, account, rawData, idx, weekPairs, B2, B3, sheetName, history, optimizerVars, trackerVars>>

\* campaignTypeOptions = ['All', ...allCampaignTypes] of the rows to be written
campaignTypeOptions(data) == {"All"} \cup {data[k].D : k \in 1..Len(data)}

\* what filterCell.getValue() returns after summarySheet.clear()
ClearedCell == ""

\* if (!currentSelection || !campaignTypeOptions.includes(currentSelection))
\*   filterCell.setValue('All')
FilterAfterSetup(currentSelection, options) ==
  IF currentSelection = "" \/ currentSelection \notin options THEN "All"
  ELSE currentSelection

\* variant: the rows of the run before stay on the sheet and the new rows
\* are added to them
Rerun_KeepsRows ==
  /\ pc = "done"
  /\ Len(history) < MaxRuns - 1
  /\ history' = Append(history, formulaData)
  /\ rawData' = processData(script, search(account))
  /\ pc' = (IF script = "weekly" THEN "pairing" ELSE "building")
  /\ idx' = 0
  /\ weekPairs' = <<>>
  /\ B2' = FilterAfterSetup(ClearedCell, campaignTypeOptions(rawData'))
  /\ B3' = "No"
  /\ B4' = "No"
  /\ sheetName' = (IF script = "weekly" THEN "Weekly Summary" ELSE "Monthly Summary")
  /\ UNCHANGED <<script, today, account, formulaData, optimizerVars, trackerVars>>

\* main() runs again on the same day over the same account: the Raw sheet is
\* rewritten, the summary sheet is found (or made) under its own name and
\* cleared, the filter cells are read after the clear and get their
\* defaults, formulaData = []
Rerun ==
  /\ pc = "done"
  /\ Len(history) < MaxRuns - 1
  /\ history' = Append(history, formulaData)
  /\ rawData' = processData(script, search(account))
  /\ pc' = (IF script = "weekly" THEN "pairing" ELSE "building")
  /\ idx' = 0
  /\ weekPairs' = <<>>
  /\ formulaData' = <<>>
  /\ B2' = FilterAfterSetup(ClearedCell, campaignTypeOptions(rawData'))
  /\ B3' = "No"
  /\ B4' = "No"
  /\ sheetName' = (IF script = "weekly" THEN "Weekly Summary" ELSE "Monthly Summary")
  /\ UNCHANGED <<script, today, account, optimizerVars, trackerVars>>

Next ==
  \/ PairWeek \/ PairingDone \/ BuildRow \/ WriteRows
  \/ MonthlyBuildRow \/ MonthlyWriteRows
  \/ SetFilter

\* the reports and the user's filter edits
Spec == Init /\ [][Next]_vars

\* the weekly report followed by the maintenance functions of the weekly
\* script (refreshSheet, toggleYoY), run on a Monday over few campaigns
InitRefresh ==
  /\ Init
  /\ script = "weekly"
  /\ getDay(today) = 1
  /\ account \in SheetInputs(SheetWeeks)

NextRefresh ==
  \/ PairWeek \/ PairingDone \/ BuildRow \/ WriteRows
  \/ SetFilter \/ SetToggle \/ RenameSheet \/ RefreshSheet \/ ToggleYoY

SpecRefresh == InitRefresh /\ [][NextRefresh]_vars

\* the reports, the user's filter edits and a second run of the same report
NextRerun ==
  \/ Next
  \/ Rerun

SpecRerun == Init /\ [][NextRerun]_vars

----------------------------------------------------------------------------
(* The product-type optimizer v2: getDateRange, the extraction of the      *)
(* products from the rows of the shopping_performance_view query, and the  *)
(* batch loop of main.  The source does not convert metrics.impressions:   *)
(* the value is used as the host hands it over, a decimal string in the    *)
(* JSON form of the API (int64), or a number.                              *)

DAYS_BACK == 7

BATCH_SIZE == 10

\* date.setDate(n): day n of date's month, rolling over into the months
\* before or after when n is not a day of that month; the result in days
SetDate(date, n) == DaysFromCivil(date[1], date[2], 1) + n - 1

\* date.getDate()
getDate(date) == date[3]

\* getDateRange(): both dates start as copies of today
getDateRange ==
  LET endDate   == SetDate(today, getDate(today) - 1)
      startDate == SetDate(today, getDate(FormatDate(endDate)) - (DAYS_BACK - 1))
  IN  [startDate |-> FormatDate(startDate), endDate |-> FormatDate(endDate)]

\* WHERE segments.date BETWEEN START_DATE AND END_DATE: no day is in the
\* range when it starts after it ends
EmptyRange == GetTime(getDateRange.startDate) > GetTime(getDateRange.endDate)

\* a value of an int64 field as the host hands it over: a decimal string
\* (kept as the sequence of its digits) or a number
Str(digits) == [t |-> "string", v |-> digits]
Number(n) == [t |-> "number", v |-> n]

\* the number a decimal string stands for
RECURSIVE DigitsValue(_)
DigitsValue(digits) ==
  IF digits = <<>> THEN 0
  ELSE 10 * DigitsValue(SubSeq(digits, 1, Len(digits) - 1)) + digits[Len(digits)]

\* the number a value stands for
NumberOf(x) == IF x.t = "string" THEN DigitsValue(x.v) ELSE x.v

\* a > b on two strings: the comparison is by character, and a string is
\* greater than its proper prefixes
StringGreater(a, b) ==
  \E k \in 1..Len(a) :
    /\ \A j \in 1..(k - 1) : j <= Len(b) /\ a[j] = b[j]
    /\ (k > Len(b) \/ a[k] > b[k])

\* impressions > existing.impressions: two strings are compared as strings,
\* anything else as numbers
JsGreater(a, b) ==
  IF a.t = "string" /\ b.t = "string" THEN StringGreater(a.v, b.v)
  ELSE NumberOf(a) > NumberOf(b)

\* the record put in the map for a row
ProductOf(row) ==
  [id |-> row.productItemId, title |-> row.productTitle,
   impressions |-> row.impressions, row |-> 0]

\* while (rows.hasNext()): the loop from row k on, uniqueProducts being the
\* values of the map in insertion order
RECURSIVE ExtractFrom(_, _, _)
ExtractFrom(rows, k, uniqueProducts) ==
  IF k > Len(rows) THEN uniqueProducts
  ELSE LET row == rows[k]
           has == {p \in 1..Len(uniqueProducts) :
                     uniqueProducts[p].id = row.productItemId}
       IN  IF row.productItemId # "" /\ row.productTitle # ""
           THEN IF has = {}
                THEN ExtractFrom(rows, k + 1, Append(uniqueProducts, ProductOf(row)))
                ELSE LET p == CHOOSE q \in has : TRUE
                     IN  IF JsGreater(row.impressions, uniqueProducts[p].impressions)
                         THEN ExtractFrom(rows, k + 1,
                                [uniqueProducts EXCEPT ![p] = ProductOf(row)])
                         ELSE ExtractFrom(rows, k + 1, uniqueProducts)
           ELSE ExtractFrom(rows, k + 1, uniqueProducts)

\* extractProductsFromGoogleAds(): product.row = index + 2, index from 0
extractProductsFromGoogleAds(rows) ==
  LET productsArray == ExtractFrom(rows, 1, <<>>)
  IN  [index \in 1..Len(productsArray) |->
         [productsArray[index] EXCEPT !.row = index + 1]]

\* a row of the query
AdsRow(id, title, impressions) ==
  [productItemId |-> id, productTitle |-> title, impressions |-> impressions]

\* the rows of a result all carry their impressions in the same form
AdsRowPool(values) ==
  {AdsRow(id, title, n) : id \in {"", "A", "B"}, title \in {"", "Pool"}, n \in values}

\* ORDER BY metrics.impressions DESC
ImpressionsDesc(rows) ==
  \A k \in 1..(Len(rows) - 1) :
    NumberOf(rows[k].impressions) >= NumberOf(rows[k + 1].impressions)

\* inputs that exercise the extraction: few rows, any ids and titles
ExtractionInputs ==
  UNION {{rows \in [1..n -> AdsRowPool(values)] : ImpressionsDesc(rows)} :
           n \in 0..MaxAdsRows,
           values \in {{Str(<<9>>), Str(<<1, 0>>)}, {Number(9), Number(10)}}}

\* inputs that exercise the batch loop: n products, one row each
ManyProducts(n) == [k \in 1..n |-> AdsRow(ToString(k), "Pool", Str(<<9>>))]

LoopInputs == {ManyProducts(n) : n \in 1..MaxProducts}

\* the days on which the optimizer is run: around the ends of February 2024,
\* of December 2024 and of February 2025
OptimizerBaseDay == <<2025, 2, 20>>

OptimizerTodays ==
  {OptimizerBaseDay}
    \cup {FormatDate(GetTime(<<2024, 2, 27>>) + k) : k \in 0..9}
    \cup {FormatDate(GetTime(<<2024, 12, 30>>) + k) : k \in 0..9}
    \cup {FormatDate(GetTime(<<2025, 2, 26>>) + k) : k \in 0..9}

\* the reports are not part of a run of the optimizer
ReportIdle ==
  /\ account = <<>>
  /\ rawData = <<>>
  /\ idx = 0
  /\ weekPairs = <<>>
  /\ formulaData = <<>>
  /\ B2 = ""
  /\ B3 = ""
  /\ B4 = ""
  /\ sheetName = ""
  /\ history = <<>>

\* main() up to the batch loop: the products are extracted, and main returns
\* when there is none
InitOptimizer ==
  /\ script = "optimizer"
  /\ today \in OptimizerTodays
  /\ \E found \in (IF today = OptimizerBaseDay THEN ExtractionInputs \cup LoopInputs
                   ELSE {ManyProducts(2)}) :
       adsRows = (IF EmptyRange THEN <<>> ELSE found)
  /\ products = extractProductsFromGoogleAds(adsRows)
  /\ pc = (IF Len(products) = 0 THEN "noProducts" ELSE "optimizing")
  /\ batchStart = 0
  /\ done = 0
  /\ successful = 0
  /\ failed = 0
  /\ calls = [k \in 1..Len(products) |-> 0]
  /\ ReportIdle
  /\ TrackerIdle

\* products.slice(i, i + BATCH_SIZE)
batch ==
  SubSeq(products, batchStart + 1,
         IF batchStart + BATCH_SIZE < Len(products) THEN batchStart + BATCH_SIZE
         ELSE Len(products))

\* variant: an error of optimizeProductType is not caught product by product
\* and ends the run
OptimizeProduct_StopsOnError ==
  /\ script = "optimizer"
  /\ pc = "optimizing"
  /\ done < Len(batch)
  /\ \E optimized \in BOOLEAN, written \in BOOLEAN, errorWritten \in BOOLEAN :
       /\ calls' = [calls EXCEPT ![batchStart + done + 1] = @ + 1]
       /\ IF optimized /\ written
          THEN /\ successful' = successful + 1
               /\ UNCHANGED <<failed, pc>>
               /\ done' = done + 1
          ELSE /\ failed' = failed + 1
               /\ UNCHANGED successful
               /\ IF optimized /\ errorWritten
                  THEN done' = done + 1 /\ UNCHANGED pc
                  ELSE /\ pc' = (IF optimized THEN "fatal: sheet error"
                                 ELSE "fatal: optimizer error")
                       /\ UNCHANGED done
  /\ UNCHANGED <<script, today, adsRows, products, batchStart, reportVars, trackerVars>>

\* one iteration of for (const product of batch): optimizeProductType may
\* throw, and so may each write to the results sheet; an error thrown in the
\* catch block reaches the catch of main, which logs 'Fatal error' with the
\* message of that error
OptimizeProduct ==
  /\ script = "optimizer"
  /\ pc = "optimizing"
  /\ done < Len(batch)
  /\ \E optimized \in BOOLEAN, written \in BOOLEAN, errorWritten \in BOOLEAN :
       /\ calls' = [calls EXCEPT ![batchStart + done + 1] = @ + 1]
       /\ IF optimized /\ written
          THEN /\ successful' = successful + 1
               /\ UNCHANGED <<failed, pc>>
               /\ done' = done + 1
          ELSE /\ failed' = failed + 1
               /\ UNCHANGED successful
               /\ IF errorWritten
                  THEN done' = done + 1 /\ UNCHANGED pc
                  ELSE pc' = "fatal: sheet error" /\ UNCHANGED done
  /\ UNCHANGED <<script, today, adsRows, products, batchStart, reportVars, trackerVars>>

\* the batch is over and i + BATCH_SIZE < products.length: the next batch
NextBatch ==
  /\ script = "optimizer"
  /\ pc = "optimizing"
  /\ done = Len(batch)
  /\ batchStart + BATCH_SIZE < Len(products)
  /\ batchStart' = batchStart + BATCH_SIZE
  /\ done' = 0
  /\ UNCHANGED <<script, today, pc, adsRows, products, successful, failed, calls,
                 reportVars, trackerVars>>

\* the last batch is over: 'Optimization complete ... Success, Failed'
LoopEnd ==
  /\ script = "optimizer"
  /\ pc = "optimizing"
  /\ done = Len(batch)
  /\ batchStart + BATCH_SIZE >= Len(products)
  /\ pc' = "complete"
  /\ UNCHANGED <<script, today, adsRows, products, batchStart, done, successful,
                 failed, calls, reportVars, trackerVars>>

NextOptimizer == OptimizeProduct \/ NextBatch \/ LoopEnd

SpecOptimizer == InitOptimizer /\ [][NextOptimizer]_vars

----------------------------------------------------------------------------
(* Product Performance Tracker v1.4.1: the month-over-month analysis *)

MaxTrackerRows == 2

\* a Map is the sequence of its entries [key, value] in insertion order; the
\* values of the tracker's Maps are objects, and get() of an absent key is
\* undefined
NoEntry == [t |-> "undefined"]

Truthy(x) == x.t # "undefined"

MapHas(map, key) == \E k \in 1..Len(map) : map[k].key = key

MapGet(map, key) ==
  IF MapHas(map, key)
  THEN map[CHOOSE k \in 1..Len(map) : map[k].key = key].value
  ELSE NoEntry

MapSet(map, key, value) ==
  IF MapHas(map, key)
  THEN [k \in 1..Len(map) |->
          IF map[k].key = key THEN [key |-> key, value |-> value] ELSE map[k]]
  ELSE Append(map, [key |-> key, value |-> value])

MapKeys(map) == [k \in 1..Len(map) |-> map[k].key]

MapSize(map) == Len(map)

\* `Unknown_${processedCount}`
UnknownId(processedCount) ==
  <<"Unknown_0", "Unknown_1", "Unknown_2", "Unknown_3">>[processedCount + 1]

\* parseInt(text) || 0 on a string of decimal digits: the empty string parses
\* to NaN, which is falsy
ParseIntOrZero(text) == IF text = <<>> THEN 0 ELSE DigitsValue(text)

\* the while loop of pullShoppingProductData from row k + 1 on: a row without
\* an id gets the id Unknown_<processedCount>, and the impressions of a row
\* whose id the Map already has are added to the entry
RECURSIVE PullRows(_, _, _, _)
PullRows(rows, k, processedCount, productData) ==
  IF k >= Len(rows) THEN productData
  ELSE LET row == rows[k + 1]
           productId == IF row.id # "" THEN row.id ELSE UnknownId(processedCount)
           impressions == ParseIntOrZero(row.impressions)
           productRecord == [t |-> "object", productId |-> productId,
                             impressions |-> impressions]
           existing == MapGet(productData, productId)
       IN  PullRows(rows, k + 1, processedCount + 1,
             IF MapHas(productData, productId)
             THEN MapSet(productData, productId,
                         [existing EXCEPT !.impressions = @ + impressions])
             ELSE MapSet(productData, productId, productRecord))

\* the data of what pullShoppingProductData returns for the rows of a report
pullShoppingProductData(rows) == PullRows(rows, 0, 0, <<>>)

\* new Set([...a, ...b]) as the sequence of its elements in insertion order
RECURSIVE SetOfSeq(_, _)
SetOfSeq(elements, set) ==
  IF elements = <<>> THEN set
  ELSE SetOfSeq(Tail(elements),
                IF \E k \in 1..Len(set) : set[k] = Head(elements) THEN set
                ELSE Append(set, Head(elements)))

\* Array.from(map.values()).reduce((sum, p) => sum + p.impressions, 0)
RECURSIVE SumImpressions(_)
SumImpressions(map) ==
  IF map = <<>> THEN 0 ELSE map[1].value.impressions + SumImpressions(Tail(map))

\* the rows of a shopping report: item id (may be empty) and impressions
TrackerRowPool ==
  [id : {"", "sku-1", "sku-2", "sku-3"}, impressions : {<<>>, <<1, 2>>}]

TrackerReports ==
  UNION {[1..n -> TrackerRowPool] : n \in 0..MaxTrackerRows}

TrackerDay == <<2025, 3, 10>>

\* main() up to the analysis: both months are pulled, and main returns when
\* either pull failed; performInventoryAnalysis then collects the ids
InitTracker ==
  /\ script = "tracker"
  /\ today = TrackerDay
  /\ \E lastMonthRows \in TrackerReports, twoMonthsAgoRows \in TrackerReports,
        lastMonthPulled \in BOOLEAN, twoMonthsAgoPulled \in BOOLEAN :
       IF lastMonthPulled /\ twoMonthsAgoPulled
       THEN /\ lastMonthProducts = pullShoppingProductData(lastMonthRows)
            /\ twoMonthsAgoProducts = pullShoppingProductData(twoMonthsAgoRows)
            /\ pc = "analyzing"
       ELSE /\ lastMonthProducts = <<>>
            /\ twoMonthsAgoProducts = <<>>
            /\ pc = "pullFailed"
  /\ allProductIds =
       SetOfSeq(MapKeys(lastMonthProducts) \o MapKeys(twoMonthsAgoProducts), <<>>)
  /\ analysed = 0
  /\ newProducts = <<>>
  /\ discontinuedProducts = <<>>
  /\ continuingProducts = <<>>
  /\ summary = <<>>
  /\ ReportIdle
  /\ OptimizerIdle

\* variant: the first test looks at last month only and the chain is not an
\* else-if chain, so a product of both months is also counted as new
AnalyzeProduct_NotExclusive ==
  /\ script = "tracker"
  /\ pc = "analyzing"
  /\ analysed < Len(allProductIds)
  /\ LET productId == allProductIds[analysed + 1]
         lastMonthProduct == MapGet(lastMonthProducts, productId)
         twoMonthsAgoProduct == MapGet(twoMonthsAgoProducts, productId)
     IN  /\ newProducts' =
               (IF Truthy(lastMonthProduct)
                THEN MapSet(newProducts, productId, lastMonthProduct)
                ELSE newProducts)
         /\ discontinuedProducts' =
               (IF ~Truthy(lastMonthProduct) /\ Truthy(twoMonthsAgoProduct)
                THEN MapSet(discontinuedProducts, productId, twoMonthsAgoProduct)
                ELSE discontinuedProducts)
         /\ continuingProducts' =
               (IF Truthy(lastMonthProduct) /\ Truthy(twoMonthsAgoProduct)
                THEN MapSet(continuingProducts, productId,
                       [t |-> "object", productId |-> productId,
                        impressionsDelta |-> lastMonthProduct.impressions
                                               - twoMonthsAgoProduct.impressions])
                ELSE continuingProducts)
  /\ analysed' = analysed + 1
  /\ UNCHANGED <<script, today, pc, lastMonthProducts, twoMonthsAgoProducts,
                 allProductIds, summary, reportVars, optimizerVars>>

\* one iteration of for (const productId of allProductIds): the id goes to
\* newProducts, to discontinuedProducts or to continuingProducts
AnalyzeProduct ==
  /\ script = "tracker"
  /\ pc = "analyzing"
  /\ analysed < Len(allProductIds)
  /\ LET productId == allProductIds[analysed + 1]
         lastMonthProduct == MapGet(lastMonthProducts, productId)
         twoMonthsAgoProduct == MapGet(twoMonthsAgoProducts, productId)
     IN  IF Truthy(lastMonthProduct) /\ ~Truthy(twoMonthsAgoProduct)
         THEN /\ newProducts' = MapSet(newProducts, productId, lastMonthProduct)
              /\ UNCHANGED <<discontinuedProducts, continuingProducts>>
         ELSE IF ~Truthy(lastMonthProduct) /\ Truthy(twoMonthsAgoProduct)
         THEN /\ discontinuedProducts' =
                    MapSet(discontinuedProducts, productId, twoMonthsAgoProduct)
              /\ UNCHANGED <<newProducts, continuingProducts>>
         ELSE IF Truthy(lastMonthProduct) /\ Truthy(twoMonthsAgoProduct)
         THEN /\ continuingProducts' =
                    MapSet(continuingProducts, productId,
                       [t |-> "object", productId |-> productId,
                        impressionsDelta |-> lastMonthProduct.impressions
                                               - twoMonthsAgoProduct.impressions])
              /\ UNCHANGED <<newProducts, discontinuedProducts>>
         ELSE UNCHANGED <<newProducts, discontinuedProducts, continuingProducts>>
  /\ analysed' = analysed + 1
  /\ UNCHANGED <<script, today, pc, lastMonthProducts, twoMonthsAgoProducts,
                 allProductIds, summary, reportVars, optimizerVars>>

\* the loop is over: the summary takes the sizes of the five Maps
Summarize ==
  /\ script = "tracker"
  /\ pc = "analyzing"
  /\ analysed = Len(allProductIds)
  /\ summary' =
       [totalProductsLastMonth |-> MapSize(lastMonthProducts),
        totalProductsTwoMonthsAgo |-> MapSize(twoMonthsAgoProducts),
        newProducts |-> MapSize(newProducts),
        discontinuedProducts |-> MapSize(discontinuedProducts),
        continuingProducts |-> MapSize(continuingProducts),
        newProductsImpressions |-> SumImpressions(newProducts),
        discontinuedProductsImpressions |-> SumImpressions(discontinuedProducts)]
  /\ pc' = "analyzed"
  /\ UNCHANGED <<script, today, lastMonthProducts, twoMonthsAgoProducts,
                 allProductIds, analysed, newProducts, discontinuedProducts,
                 continuingProducts, reportVars, optimizerVars>>

NextTracker == AnalyzeProduct \/ Summarize

SpecTracker == InitTracker /\ [][NextTracker]_vars

----------------------------------------------------------------------------
(* Properties of the weekly pairing *)

\* the comparison set: the distinct previous-year week starts of the raw data
ComparisonWeeks == {w \in {rawData[i].A : i \in 1..Len(rawData)} : w[1] = previousYear}

\* the distinct current-year week starts of the raw data
CurrentWeeks == {w \in {rawData[i].A : i \in 1..Len(rawData)} : w[1] = currentYear}

\* the same calendar date one year earlier
SameDateLastYear(w) == <<w[1] - 1, w[2], w[3]>>

\* whole days between two calendar days
DaysApart(a, b) == Abs(DaysFromCivil(a[1], a[2], a[3]) - DaysFromCivil(b[1], b[2], b[3]))

PairIndexes == 1..Len(weekPairs)

\* C1: no comparison-year week is the comparison bucket of two different pairs
C1_ComparisonUnique ==
  \A i \in PairIndexes, j \in PairIndexes :
    (i # j /\ weekPairs[i].previous # Null /\ weekPairs[j].previous # Null)
      => weekPairs[i].previous # weekPairs[j].previous

C4_ClosestWithinTolerance ==
  \A k \in PairIndexes :
    LET c == weekPairs[k].current
        r == weekPairs[k].previous
    IN  (ValidDate(c) /\ SameDateLastYear(c) \notin ComparisonWeeks /\ r # Null)
          => /\ r \in ComparisonWeeks
             /\ DaysApart(r, SameDateLastYear(c)) <= 7
             /\ \A p \in ComparisonWeeks :
                  DaysApart(p, SameDateLastYear(c)) >= DaysApart(r, SameDateLastYear(c))

\* a pair without exact match took the nearer of two comparison weeks that
\* both lie within the tolerance
C4_Witness ==
  \E k \in PairIndexes :
    LET c == weekPairs[k].current
        r == weekPairs[k].previous
    IN  /\ ValidDate(c) /\ r # Null /\ r # SameDateLastYear(c)
        /\ \E p \in ComparisonWeeks :
             /\ DaysApart(p, SameDateLastYear(c)) <= 7
             /\ DaysApart(p, SameDateLastYear(c)) > DaysApart(r, SameDateLastYear(c))
             /\ StrLess(p, r)

\* C5: a comparison week 8 or more days from the target is never returned;
\* when a comparison week lies exactly 7 days from the target some comparison
\* week is returned, and it is that one when no other lies within 7 days
C5_ToleranceBoundary ==
  \A k \in PairIndexes :
    LET c == weekPairs[k].current
        r == weekPairs[k].previous
    IN  ValidDate(c) =>
          /\ r # Null => DaysApart(r, SameDateLastYear(c)) < 8
          /\ \A p \in ComparisonWeeks :
               DaysApart(p, SameDateLastYear(c)) = 7
                 => /\ r # Null
                    /\ (\A q \in ComparisonWeeks \ {p} :
                          DaysApart(q, SameDateLastYear(c)) > 7) => r = p

\* a pair whose comparison week is exactly 7 days from the target, while
\* another comparison week lies 8 days from it
C5_Witness ==
  \E k \in PairIndexes :
    LET c == weekPairs[k].current
        r == weekPairs[k].previous
    IN  /\ ValidDate(c) /\ r # Null
        /\ DaysApart(r, SameDateLastYear(c)) = 7
        /\ \E p \in ComparisonWeeks : DaysApart(p, SameDateLastYear(c)) = 8

----------------------------------------------------------------------------
(* Properties of the formula rows *)

\* the columns of each metric on the summary sheet, as the formulaRow
\* comments and the headers name them: current, comparison, YoY index
MetricColumns ==
  IF script = "weekly"
  THEN [clicks      |-> [cur |-> "C",  prev |-> "E",  idx |-> "F"],
        avgCpc      |-> [cur |-> "G",  prev |-> "I",  idx |-> "J"],
        cost        |-> [cur |-> "K",  prev |-> "M",  idx |-> "N"],
        conversions |-> [cur |-> "O",  prev |-> "Q",  idx |-> "R"],
        costPerConv |-> [cur |-> "S",  prev |-> "U",  idx |-> "V"],
        convValue   |-> [cur |-> "W",  prev |-> "Y",  idx |-> "Z"],
        valuePerCost |-> [cur |-> "AA", prev |-> "AC", idx |-> "AD"]]
  ELSE [clicks      |-> [cur |-> "C", prev |-> "D", idx |-> "E"],
        avgCpc      |-> [cur |-> "F", prev |-> "G", idx |-> "H"],
        cost        |-> [cur |-> "I", prev |-> "J", idx |-> "K"],
        conversions |-> [cur |-> "L", prev |-> "M", idx |-> "N"],
        convValue   |-> [cur |-> "O", prev |-> "P", idx |-> "Q"],
        valuePerCost |-> [cur |-> "U", prev |-> "V", idx |-> "W"]]

Metrics == DOMAIN MetricColumns

BaseMetrics == {"clicks", "cost", "conversions", "convValue"}

\* the Raw column of each base metric, as rawHeaders names them
RawColumnOf(metric) ==
  CASE metric = "clicks"      -> "G"
    [] metric = "cost"        -> "H"
    [] metric = "conversions" -> "J"
    [] metric = "convValue"   -> IF script = "weekly" THEN "K" ELSE "L"

\* the rows on the sheet and the sheet row of the k-th of them
SheetRows == IF pc = "done" THEN 1..Len(formulaData) ELSE {}
RowOf(k) == FirstRow + k - 1

\* the pair of the k-th row
RowCurrent(k) ==
  IF script = "weekly" THEN weekPairs[k].current
  ELSE limitedCurrentYearMonths[k]
RowPrevious(k) ==
  IF script = "weekly" THEN weekPairs[k].previous
  ELSE ElementOrNull(previousYearMonths, k - 1)

\* the Raw records a period's figures are made of under the filter cells
Selected(period) ==
  {i \in 1..Len(rawData) :
     /\ rawData[i].A = period
     /\ B2 = "All" \/ rawData[i].D = B2
     /\ B3 = "Yes" => ~rawData[i].E}

RECURSIVE TotalOver(_, _)
TotalOver(I, col) ==
  IF I = {} THEN Rat(0, 1)
  ELSE LET i == CHOOSE x \in I : TRUE
       IN  RatAdd(rawData[i][col], TotalOver(I \ {i}, col))

Zero == Rat(0, 1)

\* v is the number num/den when den > 0 and the number 0 otherwise
IsGuardedRatio(v, num, den, scale) ==
  /\ IsNum(v) /\ IsNum(num) /\ IsNum(den)
  /\ IF RatGt(den, Zero)
     THEN SameValue(v, RatMul(Rat(scale, 1), RatDiv(num, den)))
     ELSE SameValue(v, Zero)

\* C7: every current-year cell of a base metric shows the sum of the metric
\* over the Raw records of the row's current period that pass the filters
C7_CurrentSums ==
  \A k \in SheetRows, m \in BaseMetrics :
    SameValue(CellValue(MetricColumns[m].cur, RowOf(k)),
              TotalOver(Selected(RowCurrent(k)), RawColumnOf(m)))

\* C8: in a row whose comparison bucket is null every comparison cell and
\* every YoY index cell shows 0
C8_NullComparisonZero ==
  \A k \in SheetRows :
    RowPrevious(k) = Null =>
      \A m \in Metrics :
        /\ SameValue(CellValue(MetricColumns[m].prev, RowOf(k)), Zero)
        /\ SameValue(CellValue(MetricColumns[m].idx, RowOf(k)), Zero)

\* C9: on both sides of every row, average CPC is cost / clicks, cost per
\* conversion is cost / conversions and conversion value per cost is
\* conversion value / cost, each 0 when its denominator is not above 0
C9_DerivedRatios ==
  \A k \in SheetRows, side \in {"cur", "prev"} :
    LET cell(m) == CellValue(MetricColumns[m][side], RowOf(k))
    IN  /\ IsGuardedRatio(cell("avgCpc"), cell("cost"), cell("clicks"), 1)
        /\ "costPerConv" \in Metrics =>
             IsGuardedRatio(cell("costPerConv"), cell("cost"), cell("conversions"), 1)
        /\ IsGuardedRatio(cell("valuePerCost"), cell("convValue"), cell("cost"), 1)

\* C10: every YoY index cell shows 100 * current / comparison when the
\* comparison value is above 0 and exactly 0 when it is 0, never an error
C10_IndexGuarded ==
  \A k \in SheetRows, m \in Metrics :
    IsGuardedRatio(CellValue(MetricColumns[m].idx, RowOf(k)),
                   CellValue(MetricColumns[m].cur, RowOf(k)),
                   CellValue(MetricColumns[m].prev, RowOf(k)), 100)

\* the week-over-week column of each metric of the weekly sheet, as the
\* formulaRow comments and the headers name them
WoWColumns ==
  [clicks |-> "D", avgCpc |-> "H", cost |-> "L", conversions |-> "P",
   costPerConv |-> "T", convValue |-> "X", valuePerCost |-> "AB"]

\* C11: in the weekly sheet the week-over-week cell of every metric shows 0 in
\* the first data row and, in each later row, 100 * the row's current value /
\* the preceding row's current value, 0 when the preceding value is 0
C11_WoWCells ==
  script = "weekly" =>
    \A k \in SheetRows, m \in DOMAIN WoWColumns :
      LET wow == CellValue(WoWColumns[m], RowOf(k))
      IN  IF k = 1 THEN SameValue(wow, Zero)
          ELSE IsGuardedRatio(wow,
                              CellValue(MetricColumns[m].cur, RowOf(k)),
                              CellValue(MetricColumns[m].cur, RowOf(k) - 1), 100)

----------------------------------------------------------------------------
(* Properties of the period lists *)

\* the current-year periods that become dashboard rows
RowPeriods ==
  IF script = "weekly" THEN currentYearWeeks ELSE limitedCurrentYearMonths

\* the period that starts on the valid day `period` is over before today
Complete(period) == PeriodEnd(period) < GetTime(today)

\* C12: every calendar period in the list of current-year periods that become
\* rows, and every period displayed in a row built so far, ended before the
\* day of the run
C12_OnlyCompletePeriods ==
  /\ \A k \in 1..Len(RowPeriods) :
       ValidDate(RowPeriods[k]) => Complete(RowPeriods[k])
  /\ \A k \in 1..Len(formulaData) :
       ValidDate(formulaData[k].B.s) => Complete(formulaData[k].B.s)

\* the account holds rows of the period that is still running on the day of
\* the run, and the sheet was written with at least one row
C12_Witness ==
  /\ pc = "done"
  /\ Len(formulaData) >= 1
  /\ \E i \in 1..Len(account) :
       LET p == account[i].period
       IN  ValidDate(p) /\ p[1] = currentYear /\ ~Complete(p)

\* C13 as stated: when the comparison year has at least as many periods in
\* the raw data as the current year, the comparison-year list and the
\* current-year list the rows are paired from have the same length
C13_EqualLength ==
  IF script = "weekly"
  THEN Len(previousYearWeeks) >= Len(currentYearWeeks)
         => Len(previousYearWeeks) = Len(currentYearWeeks)
  ELSE Len(allPreviousYearMonths) >= Len(currentYearMonths)
         => Len(previousYearMonths) = Len(limitedCurrentYearMonths)

\* C13 amended: the monthly builder keeps the first currentMonthNumber months
\* of each year's sorted list, so neither list is longer than
\* currentMonthNumber and the two have equal length when both years have at
\* least that many months; the weekly builder keeps every comparison-year week
C13_TruncatedToMonthNumber ==
  IF script = "weekly"
  THEN Range(previousYearWeeks) = ComparisonWeeks
  ELSE /\ Len(previousYearMonths) <= currentMonthNumber
       /\ Len(limitedCurrentYearMonths) <= currentMonthNumber
       /\ previousYearMonths = SubSeq(allPreviousYearMonths, 1, Len(previousYearMonths))
       /\ limitedCurrentYearMonths = SubSeq(currentYearMonths, 1, Len(limitedCurrentYearMonths))
       /\ (Len(allPreviousYearMonths) >= currentMonthNumber
           /\ Len(currentYearMonths) >= currentMonthNumber)
            => Len(previousYearMonths) = Len(limitedCurrentYearMonths)

\* the monthly sheet was written from a comparison year with more months than
\* currentMonthNumber and a current year with currentMonthNumber months
C13_Witness ==
  /\ script = "monthly"
  /\ pc = "done"
  /\ Len(allPreviousYearMonths) > currentMonthNumber
  /\ Len(currentYearMonths) = currentMonthNumber
  /\ Len(previousYearMonths) = Len(formulaData)

\* the i-th smallest date string of a set, Null when the set has fewer
NthOf(S, i) ==
  IF i > Cardinality(S) THEN Null
  ELSE CHOOSE x \in S : Cardinality({y \in S : StrLess(y, x)}) = i - 1

\* the period a summed cell of the monthly sheet aggregates: the date
\* criterion of its SUMIFS calls, Null for the literal 0
PeriodRead(cell) ==
  IF cell.k = "call" THEN cell.args[2].args[2].args[3].s ELSE Null

\* the comparison-side summed cells of a monthly row
MonthlyComparisonCells == {"D", "J", "M", "P", "S"}

\* C14: row i of the monthly sheet displays the i-th current-year month of the
\* raw data in sorted order, and its comparison cells aggregate the i-th
\* comparison-year month in sorted order, or are the literal 0 when the
\* comparison year has fewer than i months (CurrentWeeks and ComparisonWeeks
\* are the period starts of each year in the raw data, here month starts)
C14_PositionalPairing ==
  script = "monthly" =>
    \A k \in 1..Len(formulaData) :
      /\ formulaData[k].B = Plain(NthOf(CurrentWeeks, k))
      /\ PeriodRead(formulaData[k].C) = NthOf(CurrentWeeks, k)
      /\ \A c \in MonthlyComparisonCells :
           PeriodRead(formulaData[k][c]) = NthOf(ComparisonWeeks, k)

\* the monthly sheet has a row whose comparison month is another calendar
\* month than its current month: no date matching took place
C14_Witness ==
  /\ script = "monthly"
  /\ pc = "done"
  /\ \E k \in 1..Len(formulaData) :
       /\ PeriodRead(formulaData[k].D) # Null
       /\ PeriodRead(formulaData[k].D)[2] # formulaData[k].B.s[2]

----------------------------------------------------------------------------
(* Properties of the sheet under filter changes and refreshes *)

\* the rows on the dashboard, in either layout
OnSheet == IF pc \in {"done", "refreshed"} THEN 1..Len(formulaData) ELSE {}

\* the current-value column of each base metric in the layout on the sheet
CurrentColumnOf(metric) ==
  IF script = "weekly" /\ pc = "refreshed"
  THEN CASE metric = "clicks"      -> "C"
         [] metric = "cost"        -> "E"
         [] metric = "conversions" -> "F"
         [] metric = "convValue"   -> "H"
  ELSE MetricColumns[metric].cur

\* C15: whatever the filter cells hold, every current cell of a base metric
\* shows the metric summed over the Raw records of the row's period that pass
\* the filters now in B2 and B3, and every comparison cell shows the same for
\* the comparison period (0 when there is none): the rows are not rewritten
\* when a filter changes, so the cells read the filters by reference
C15_FiltersByReference ==
  \A k \in OnSheet, m \in BaseMetrics :
    LET period == formulaData[k].B.s
    IN  /\ YearIs(period, currentYear) =>
             SameValue(CellValue(CurrentColumnOf(m), RowOf(k)),
                       TotalOver(Selected(period), RawColumnOf(m)))
        /\ pc = "done" =>
             SameValue(CellValue(MetricColumns[m].prev, RowOf(k)),
                       IF RowPrevious(k) = Null THEN Zero
                       ELSE TotalOver(Selected(RowPrevious(k)), RawColumnOf(m)))

----------------------------------------------------------------------------
(* Properties of a second run *)

----------------------------------------------------------------------------
(* Properties of the record processing *)

\* C17: a record whose period start is not a calendar day is left out of the
\* bucketing: no dashboard row displays such a period start (and so no
\* aggregate is made of such records).
C17_MalformedExcluded ==
  pc = "done" => \A k \in SheetRows : ValidDate(RowCurrent(k))

----------------------------------------------------------------------------
(* Further properties of the weekly pairing *)

JanuaryExample ==
  /\ script = "weekly"
  /\ currentYearWeeks = JanuaryCurrentWeeks
  /\ previousYearWeeks = JanuaryComparisonWeeks

----------------------------------------------------------------------------
(* Properties of the conditional formatting *)

\* the values at which the tiers of a list of rules begin or end
TierBoundaries(rules) ==
  UNION {Range(rules[i].values) : i \in 1..Len(rules)}

\* the columns of a finished weekly sheet that carry rules (the rules are
\* applied only when there are data rows)
FormattedColumns ==
  IF script = "weekly" /\ pc = "done" /\ Len(formulaData) > 0
  THEN indexColumns ELSE {}

\* C20: on a finished weekly sheet the rules of a column where lower is
\* better have exactly the tier boundary values of the rules of a column
\* where higher is better.
C20_SameTierBoundaries ==
  \A c \in FormattedColumns, d \in FormattedColumns :
    (lowerIsBetter(c) /\ ~lowerIsBetter(d))
      => TierBoundaries(rulesOfColumn(c)) = TierBoundaries(rulesOfColumn(d))

----------------------------------------------------------------------------
(* Properties of the maintenance functions *)

\* C21: once the weekly report has created the dashboard, the tab that holds
\* it is the one refreshSheet and toggleYoY look up, so that neither of them
\* returns on the 'Summary sheet not found' path.
C21_RefreshFindsDashboard ==
  (script = "weekly" /\ pc \in {"done", "refreshed"}) => sheetName = "Summary"

----------------------------------------------------------------------------
(* Properties of the product-type optimizer *)

\* the products the loop has reached
Attempted ==
  1..(batchStart + done
        + (IF pc \in {"fatal: sheet error", "fatal: optimizer error"} THEN 1 ELSE 0))

RowsOfId(id) ==
  {k \in 1..Len(adsRows) :
     adsRows[k].productItemId = id /\ adsRows[k].productTitle # ""}

\* C23: the extracted products have pairwise different ids, and the record
\* kept for an id has the highest impressions among the rows of the result
\* that carry that id and a non-empty title.
C23_OnePerIdHighestImpressions ==
  script = "optimizer" =>
    /\ \A p \in 1..Len(products), q \in 1..Len(products) :
         products[p].id = products[q].id => p = q
    /\ \A p \in 1..Len(products) :
         /\ RowsOfId(products[p].id) # {}
         /\ \A k \in RowsOfId(products[p].id) :
              NumberOf(products[p].impressions) >= NumberOf(adsRows[k].impressions)

----------------------------------------------------------------------------
(* Further properties of the monthly rows *)

\* C24: in a finished monthly dashboard, a row whose comparison month is not
\* null compares its current month with the same month of the year before.
C24_SameMonthOfYear ==
  (script = "monthly" /\ pc = "done") =>
    \A k \in SheetRows :
      RowPrevious(k) # Null =>
        /\ RowPrevious(k)[2] = RowCurrent(k)[2]
        /\ RowPrevious(k)[1] = RowCurrent(k)[1] - 1

----------------------------------------------------------------------------
(* Further properties of a second run *)

\* C25: a re-run of the weekly report keeps the campaign type selected in B2 when
\* that type is one of the types of the data: B2 holds the same selection
\* after the run's filter set-up as before the run.
C25_FilterKeptOnRerun ==
  [][(/\ script = "weekly"
      /\ Len(history') > Len(history)
      /\ B2 \in campaignTypeOptions(rawData'))
       => B2' = B2]_vars

----------------------------------------------------------------------------
(* Further properties of the maintenance functions *)

\* C26: when refreshSheet has run over a Raw sheet that holds data, the rows
\* it cleared have been written again: the sheet has data rows, in the YoY
\* view and in the current-year-only view alike.
C26_RefreshRewritesRows ==
  (script = "weekly" /\ pc = "refreshed" /\ Len(rawData) > 0)
    => Len(formulaData) > 0

----------------------------------------------------------------------------
(* Properties of the formula text *)

\* C27: every formula written to a cell of the weekly dashboard starts with
\* one '=' and none of the function calls nested in it carries an '=' of its
\* own.
C27_NoNestedEquals ==
  script = "weekly" =>
    \A k \in 1..Len(formulaData) :
      \A col \in DOMAIN formulaData[k] :
        LET cell == formulaData[k][col]
        IN  cell.k = "call" => (cell.eq /\ NestedCallsBare(cell))

----------------------------------------------------------------------------
(* Further properties of the conditional formatting *)

\* the percentages from 50 to 150 in steps of one half
HalfPercents == {Rat(h, 2) : h \in 100..300}

\* the rules of column c that a cell showing v matches
TiersOf(c, v) ==
  {r \in 1..Len(rulesOfColumn(c)) : RuleMatches(rulesOfColumn(c)[r], v)}

\* C28: on a finished weekly sheet, under the normal and under the reversed
\* scale, every value of an index or week-over-week cell, whole or not,
\* matches exactly one tier rule of its column.
C28_ExactlyOneTier ==
  \A c \in FormattedColumns, v \in HalfPercents : Cardinality(TiersOf(c, v)) = 1

----------------------------------------------------------------------------
(* Further properties of the product-type optimizer *)

\* C29: whatever the day of the run, getDateRange returns yesterday as endDate
\* and the day DAYS_BACK - 1 days before endDate as startDate, so that the
\* range is the last DAYS_BACK days and does not start after it ends.
C29_LastDaysBack ==
  script = "optimizer" =>
    /\ GetTime(getDateRange.endDate) = GetTime(today) - 1
    /\ GetTime(getDateRange.startDate) = GetTime(getDateRange.endDate) - (DAYS_BACK - 1)
    /\ GetTime(getDateRange.startDate) <= GetTime(getDateRange.endDate)

----------------------------------------------------------------------------
(* Properties of the product performance tracker *)

\* the keys of a Map, as a set
KeySet(map) == {map[k].key : k \in 1..Len(map)}

\* C30: once performInventoryAnalysis has returned, every product id of
\* either month is a key of exactly one of newProducts, discontinuedProducts
\* and continuingProducts, the three Maps share no key, and in the summary
\* new + continuing is the number of last month's products and discontinued
\* + continuing is the number of the products of two months ago.
C30_ThreeWayPartition ==
  (script = "tracker" /\ pc = "analyzed") =>
    /\ \A productId \in KeySet(lastMonthProducts) \cup KeySet(twoMonthsAgoProducts) :
         Cardinality({m \in 1..3 :
            productId \in KeySet(<<newProducts, discontinuedProducts,
                                   continuingProducts>>[m])}) = 1
    /\ KeySet(newProducts) \cap KeySet(discontinuedProducts) = {}
    /\ KeySet(newProducts) \cap KeySet(continuingProducts) = {}
    /\ KeySet(discontinuedProducts) \cap KeySet(continuingProducts) = {}
    /\ summary.newProducts + summary.continuingProducts
         = summary.totalProductsLastMonth
    /\ summary.discontinuedProducts + summary.continuingProducts
         = summary.totalProductsTwoMonthsAgo
    /\ summary.totalProductsLastMonth = Cardinality(KeySet(lastMonthProducts))
    /\ summary.totalProductsTwoMonthsAgo = Cardinality(KeySet(twoMonthsAgoProducts))

\* an analysis has returned with a new, a discontinued and a continuing
\* product, one of them a row that came without an item id
C30_Witness ==
  /\ script = "tracker"
  /\ pc = "analyzed"
  /\ summary.newProducts > 0
  /\ summary.discontinuedProducts > 0
  /\ summary.continuingProducts > 0
  /\ \E productId \in KeySet(lastMonthProducts) \cup KeySet(twoMonthsAgoProducts) :
       productId \in {UnknownId(n) : n \in 0..3}

============================================================================
